---- MODULE Spec2Model ----
(***************************************************************************)
(* Trana emergency dispatch server (server.ts): the incidents table, the   *)
(* websocket connection registry `clients`, the role-scoped broadcasts,    *)
(* the 30 s escalation timer, and the HTTP handlers create/accept/resolve. *)
(* The two client functions that guard the accept and resolve requests     *)
(* (acceptIncident, resolveIncident of the single-page app) are modelled   *)
(* as the callers of those handlers.                                       *)
(*                                                                         *)
(* Node runs every callback to completion on one thread and better-sqlite3 *)
(* is synchronous, so each handler is one atomic action.  Time is the wall *)
(* clock in whole seconds, the resolution of strftime('%s', ...).          *)
(***************************************************************************)
EXTENDS Integers, Sequences, FiniteSets, TLC

VARIABLES
    now,        \* wall clock, seconds since the server started
    nextTick,   \* time at which the setInterval callback is next due
    incidents,  \* the incidents table: row id -> row
    clients,    \* the Map<number, WebSocket>: user id -> websocket (NULL = no entry)
    ws,         \* per websocket: readyState and the closure variable userId
    running,    \* the Node process is up (it exits on an uncaught exception)
    userLoc,    \* users.lat / users.lng: user id -> <<lat, lng>> (NULL until reported)
    sent,       \* messages passed to WebSocket.send by the last handler, in order
    lastOp      \* the last handler that ran, its arguments and its HTTP outcome

vars == <<now, nextTick, incidents, clients, ws, running, userLoc, sent, lastOp>>

(***************************************************************************)
(* Bounds of the model.                                                    *)
(***************************************************************************)
MaxIncidents  == 1     \* rows the model inserts
MaxConn       == 2     \* websocket connections ever opened
MaxTime       == 245   \* the clock stops here
MaxCreateTime == 29    \* incidents are created during the first timer period
MaxStmtDelay  == 1     \* seconds the clock may advance between two UPDATE statements
MaxBatch      == 2     \* rows inserted where one timer callback handles several

(***************************************************************************)
(* Program constants.                                                      *)
(***************************************************************************)
TickPeriod == 30       \* setInterval(..., 30000)
Tier2Min   == 60
Tier2Max   == 119
Tier3Min   == 120
Tier3Max   == 179
Tier4Over  == 180

NULL == 0              \* SQL NULL / JS null
UNDEFINED == -1        \* JS undefined: a key missing from a request body

\* The seeded users table: row id -> role (AUTOINCREMENT ids 1..4 on a fresh database).
seedUsers == <<"admin", "doctor", "police", "civilian">>

Users == DOMAIN seedUsers

role(u) == seedUsers[u]

Sockets == 1..MaxConn

\* role IN ('doctor', 'police', 'volunteer', 'command', 'admin')
ResponderRoles == {"doctor", "police", "volunteer", "command", "admin"}

\* role IN ('admin', 'command')
AdminRoles == {"admin", "command"}

\* ['doctor', 'police', 'volunteer'] of the client's acceptIncident
AcceptRoles == {"doctor", "police", "volunteer"}

\* (mutant) the SELECT of the callback also returns the triggered rows
EscalatedStatuses_open ==
    {"triggered", "escalating", "hospital_notified", "command_alerted"}

\* status IN ('escalating', 'hospital_notified', 'command_alerted')
EscalatedStatuses == {"escalating", "hospital_notified", "command_alerted"}

(***************************************************************************)
(* Messages.  `to` is the registry key the message was addressed to, `sock`*)
(* the websocket it was written to, `inc` the incident id it is about      *)
(* (NULL when the payload carries no incident) and `status` the status the *)
(* payload carries ("" when it carries none).                              *)
(***************************************************************************)
Msg(type, to, sock, inc, status) ==
    [type |-> type, to |-> to, sock |-> sock, inc |-> inc, status |-> status]

\* (mutant) the readyState test dropped
IsOpen_registered(cl, socks, u) == cl[u] /= NULL

\* client && client.readyState === WebSocket.OPEN
IsOpen(cl, socks, u) ==
    /\ cl[u] /= NULL
    /\ socks[cl[u]].readyState = "OPEN"

\* (mutant) the role filter dropped from the SELECT
responders_everyone == Users

\* SELECT id FROM users WHERE role IN (...) AND status = 'active'
\* (every user row keeps the default status 'active')
responders == {u \in Users : role(u) \in ResponderRoles}

\* (mutant) the role filter dropped from the SELECT
admins_everyone == Users

\* SELECT id FROM users WHERE role IN ('admin', 'command')
admins == {u \in Users : role(u) \in AdminRoles}

\* The users of `targets` in row order, each sent `type` if its registry
\* entry exists and is open: the forEach of broadcastToResponders.
RECURSIVE SendEach(_, _, _, _, _, _, _)
SendEach(u, targets, cl, socks, type, inc, status) ==
    IF u > Len(seedUsers) THEN <<>>
    ELSE (IF u \in targets /\ IsOpen(cl, socks, u)
          THEN <<Msg(type, u, cl[u], inc, status)>>
          ELSE <<>>)
         \o SendEach(u + 1, targets, cl, socks, type, inc, status)

broadcastToResponders(cl, socks, type, inc, status) ==
    SendEach(1, responders, cl, socks, type, inc, status)

\* (mutant) sent to every open websocket of the server, registered or not
broadcastStats_everySocket(cl, socks) ==
    SelectSeq([s \in Sockets |-> Msg("stats_update", socks[s].userId, s, NULL, "")],
              LAMBDA m : socks[m.sock].readyState = "OPEN")

\* clients.forEach(client => if OPEN then send): every registry entry,
\* whatever the user's role.  (Entries are visited in key order here.)
broadcastStats(cl, socks) ==
    SendEach(1, Users, cl, socks, "stats_update", NULL, "")

(***************************************************************************)
(* The incidents table.                                                    *)
(***************************************************************************)
Row(type, lat, lng, reporterId, severity, t) ==
    [type |-> type, status |-> "triggered", severity |-> severity,
     lat |-> lat, lng |-> lng, reporter_id |-> reporterId,
     responder_id |-> NULL, created_at |-> t]

Exists(incs, id) == id \in DOMAIN incs

\* strftime('%s','now') - strftime('%s', created_at)
Age(row, t) == t - row.created_at

InTier2Window(age) == age >= Tier2Min /\ age <= Tier2Max
InTier3Window(age) == age >= Tier3Min /\ age <= Tier3Max
\* (mutant) the last threshold one timer period too high
InTier4Window_late(age) == age > Tier4Over + TickPeriod

\* (mutant) the last window closed at its lower end
InTier4Window_inclusive(age) == age >= Tier4Over

InTier4Window(age) == age > Tier4Over

\* UPDATE incidents SET status = to WHERE status = from AND <age window>
Tier2Update(incs, t) ==
    [i \in DOMAIN incs |->
        IF incs[i].status = "triggered" /\ InTier2Window(Age(incs[i], t))
        THEN [incs[i] EXCEPT !.status = "escalating"] ELSE incs[i]]

Tier3Update(incs, t) ==
    [i \in DOMAIN incs |->
        IF incs[i].status = "escalating" /\ InTier3Window(Age(incs[i], t))
        THEN [incs[i] EXCEPT !.status = "hospital_notified"] ELSE incs[i]]

\* (mutant) the last UPDATE without its status condition
Tier4Update_anyStatus(incs, t) ==
    [i \in DOMAIN incs |->
        IF InTier4Window(Age(incs[i], t))
        THEN [incs[i] EXCEPT !.status = "command_alerted"] ELSE incs[i]]

Tier4Update(incs, t) ==
    [i \in DOMAIN incs |->
        IF incs[i].status = "hospital_notified" /\ InTier4Window(Age(incs[i], t))
        THEN [incs[i] EXCEPT !.status = "command_alerted"] ELSE incs[i]]

\* (mutant) the rows are read before the last UPDATE is applied
RECURSIVE TickBroadcast_early(_, _, _, _)
TickBroadcast_early(i, incs, cl, socks) ==
    IF i > Len(incs) THEN <<>>
    ELSE (IF incs[i].status \in EscalatedStatuses
          THEN broadcastToResponders(cl, socks, "incident_updated", i,
                                     IF incs[i].status = "command_alerted"
                                     THEN "hospital_notified" ELSE incs[i].status)
               \o broadcastStats(cl, socks)
          ELSE <<>>)
         \o TickBroadcast_early(i + 1, incs, cl, socks)

\* updatedIncidents.forEach(inc => { broadcastToResponders(...); broadcastStats(); })
RECURSIVE TickBroadcast(_, _, _, _)
TickBroadcast(i, incs, cl, socks) ==
    IF i > Len(incs) THEN <<>>
    ELSE (IF incs[i].status \in EscalatedStatuses
          THEN broadcastToResponders(cl, socks, "incident_updated", i, incs[i].status)
               \o broadcastStats(cl, socks)
          ELSE <<>>)
         \o TickBroadcast(i + 1, incs, cl, socks)

\* lastOp: the handler, the incident id of the request (for create, the id
\* returned), the user id in the request, the HTTP status answered, the time
\* the handler started, the websocket of a websocket event, and the
\* <<lat, lng>> of a create request.
Op(op, id, actor, res, at) ==
    [op |-> op, id |-> id, actor |-> actor, res |-> res, at |-> at,
     sock |-> NULL, body |-> <<>>]

(***************************************************************************)
(* Initial state: a fresh database with the seeded users, no connection,   *)
(* the timer armed for its first period.                                   *)
(***************************************************************************)
Init ==
    /\ now = 0
    /\ nextTick = TickPeriod
    /\ incidents = <<>>
    /\ clients = [u \in Users |-> NULL]
    /\ ws = [s \in Sockets |-> [readyState |-> "NONE", userId |-> NULL]]
    /\ running = TRUE
    /\ userLoc = [u \in Users |-> <<NULL, NULL>>]
    /\ sent = <<>>
    /\ lastOp = Op("init", NULL, NULL, "", 0)

(***************************************************************************)
(* The clock, between two runs of the timer callback.  It does not pass    *)
(* the callback's due time: a late callback is the `late` of               *)
(* EscalationTick.                                                         *)
(***************************************************************************)
ClockAdvance(d) ==
    /\ d > 0
    /\ now + d <= nextTick
    /\ now + d <= MaxTime
    /\ now' = now + d
    /\ sent' = <<>>
    /\ lastOp' = Op("clock", NULL, NULL, "", now + d)
    /\ UNCHANGED <<nextTick, incidents, clients, ws, userLoc, running>>

(***************************************************************************)
(* setInterval callback: the clock reaches the callback's due time and the *)
(* callback runs.  `late` is how long after its due time it starts; d3 and *)
(* d4 are the seconds that pass before the second and the third UPDATE     *)
(* read 'now'.  The timer is re-armed from the callback's start.           *)
(***************************************************************************)
EscalationTick(late, d3, d4) ==
    LET t2 == nextTick + late
        t3 == t2 + d3
        t4 == t3 + d4
        i2 == Tier2Update(incidents, t2)
        i3 == Tier3Update(i2, t3)
        i4 == Tier4Update(i3, t4)
        changes == (i2 /= incidents) \/ (i3 /= i2) \/ (i4 /= i3)
    IN  /\ running
        /\ now <= nextTick
        /\ t4 <= MaxTime
        /\ incidents' = i4
        /\ now' = t4
        /\ nextTick' = t2 + TickPeriod
        /\ sent' = IF changes THEN TickBroadcast(1, i4, clients, ws) ELSE <<>>
        /\ lastOp' = Op("tick", NULL, NULL, "", t2)
        /\ UNCHANGED <<clients, ws, userLoc, running>>

(***************************************************************************)
(* setInterval callback in which the statement number `stage` (1..3, one   *)
(* of the three UPDATEs) throws, e.g. SQLITE_BUSY or a disk error.  The     *)
(* callback has no try/catch and the process registers no                  *)
(* 'uncaughtException' handler, so Node prints the error and exits: the    *)
(* timer, the registry and the websockets are gone.  The UPDATEs before    *)
(* the failing one are committed.                                          *)
(***************************************************************************)
TickFault(stage) ==
    LET t  == nextTick
        i2 == Tier2Update(incidents, t)
        i3 == Tier3Update(i2, t)
    IN  /\ running
        /\ now <= nextTick
        /\ t <= MaxTime
        /\ incidents' = (CASE stage = 1 -> incidents
                           [] stage = 2 -> i2
                           [] OTHER     -> i3)
        /\ now' = t
        /\ running' = FALSE
        /\ clients' = [u \in Users |-> NULL]
        /\ ws' = [s \in Sockets |->
                    IF ws[s].readyState = "NONE" THEN ws[s]
                    ELSE [ws[s] EXCEPT !.readyState = "CLOSED"]]
        /\ sent' = <<>>
        /\ lastOp' = Op("tickFault", NULL, NULL, "exit", t)
        /\ UNCHANGED <<nextTick, userLoc>>

(***************************************************************************)
(* POST /api/incidents.  The INSERT throws when a bound value is undefined *)
(* (the driver binds numbers, strings, bigints, buffers and null only) and *)
(* when lat or lng is null (NOT NULL); reporter_id may be null.            *)
(* After the INSERT the handler builds the new_incident                    *)
(* payload, which reads the identifier `language`; the handler binds only  *)
(* type, lat, lng, reporterId and severity, so that read throws a          *)
(* ReferenceError and Express answers 500: nothing after it runs.          *)
(***************************************************************************)
LanguageInScope == FALSE

\* .run(type, lat, lng, reporterId, severity): no bound value is undefined
Bindable(lat, lng, reporterId) == UNDEFINED \notin {lat, lng, reporterId}

\* type, lat and lng are NOT NULL columns; a missing type is ""
NotNullOk(type, lat, lng) == type /= "" /\ lat /= NULL /\ lng /= NULL

PostIncident(type, lat, lng, reporterId, severity) ==
    /\ running
    /\ now <= MaxCreateTime
    /\ IF ~Bindable(lat, lng, reporterId) \/ ~NotNullOk(type, lat, lng)
       THEN /\ incidents' = incidents
            /\ sent' = <<>>
            /\ lastOp' = [Op("create", NULL, reporterId, "500", now)
                              EXCEPT !.body = <<lat, lng>>]
       ELSE LET incidentId == Len(incidents) + 1
                inserted == Append(incidents,
                                   Row(type, lat, lng, reporterId, severity, now))
            IN  /\ incidents' = inserted
                /\ IF LanguageInScope
                   THEN /\ sent' = broadcastToResponders(clients, ws, "new_incident",
                                                         incidentId, "triggered")
                                   \o broadcastStats(clients, ws)
                        /\ lastOp' = [Op("create", incidentId, reporterId, "200", now)
                                          EXCEPT !.body = <<lat, lng>>]
                   ELSE /\ sent' = <<>>
                        /\ lastOp' = [Op("create", NULL, reporterId, "500", now)
                                          EXCEPT !.body = <<lat, lng>>]
    /\ UNCHANGED <<now, nextTick, clients, ws, userLoc, running>>

(***************************************************************************)
(* POST /api/incidents/:id/accept.  The UPDATE has no condition but the    *)
(* id.  For an unknown id the SELECT yields undefined and reading          *)
(* incident.reporter_id throws: 500, nothing sent.                         *)
(***************************************************************************)
\* (mutant) the UPDATE sets responder_id and leaves the status
AcceptUpdate_responderOnly(incs, id, responderId) ==
    [i \in DOMAIN incs |->
        IF i = id THEN [incs[i] EXCEPT !.responder_id = responderId] ELSE incs[i]]

AcceptUpdate(incs, id, responderId) ==
    [i \in DOMAIN incs |->
        IF i = id
        THEN [incs[i] EXCEPT !.status = "accepted", !.responder_id = responderId]
        ELSE incs[i]]

\* (mutant) the accept notification looked up by responder_id
NotifyReporter_responder(cl, socks, row, id) ==
    IF row.responder_id /= NULL /\ IsOpen(cl, socks, row.responder_id)
    THEN <<Msg("incident_accepted", row.responder_id, cl[row.responder_id], id, "")>>
    ELSE <<>>

\* const reporterClient = clients.get(incident.reporter_id); if open, send
NotifyReporter(cl, socks, row, id) ==
    IF row.reporter_id /= NULL /\ IsOpen(cl, socks, row.reporter_id)
    THEN <<Msg("incident_accepted", row.reporter_id, cl[row.reporter_id], id, "")>>
    ELSE <<>>

PostAccept(id, responderId) ==
    LET updated == AcceptUpdate(incidents, id, responderId)
    IN  /\ running
        /\ incidents' = updated
        /\ IF Exists(updated, id)
           THEN /\ sent' = NotifyReporter(clients, ws, updated[id], id)
                           \o broadcastToResponders(clients, ws, "incident_updated",
                                                    id, updated[id].status)
                           \o broadcastStats(clients, ws)
                /\ lastOp' = Op("accept", id, responderId, "200", now)
           ELSE /\ sent' = <<>>
                /\ lastOp' = Op("accept", id, responderId, "500", now)
        /\ UNCHANGED <<now, nextTick, clients, ws, userLoc, running>>

(***************************************************************************)
(* POST /api/incidents/:id/resolve.  The body's userId is never read.  For *)
(* an unknown id the payload's incident is undefined, which JSON.stringify *)
(* drops: the broadcast still goes out, carrying no incident.              *)
(***************************************************************************)
\* (mutant) the UPDATE also clears reporter_id
ResolveUpdate_dropsReporter(incs, id) ==
    [i \in DOMAIN incs |->
        IF i = id THEN [incs[i] EXCEPT !.status = "resolved", !.reporter_id = NULL]
        ELSE incs[i]]

ResolveUpdate(incs, id) ==
    [i \in DOMAIN incs |->
        IF i = id THEN [incs[i] EXCEPT !.status = "resolved"] ELSE incs[i]]

PostResolve(id, userId) ==
    LET updated == ResolveUpdate(incidents, id)
    IN  /\ running
        /\ incidents' = updated
        /\ sent' = (IF Exists(updated, id)
                    THEN broadcastToResponders(clients, ws, "incident_updated",
                                               id, updated[id].status)
                    ELSE broadcastToResponders(clients, ws, "incident_updated",
                                               NULL, ""))
                   \o broadcastStats(clients, ws)
        /\ lastOp' = Op("resolve", id, userId, "200", now)
        /\ UNCHANGED <<now, nextTick, clients, ws, userLoc, running>>

(***************************************************************************)
(* The client's acceptIncident and resolveIncident: a check on the logged  *)
(* in user, then the request.  A failed check shows a toast and sends      *)
(* nothing.  resolveIncident looks the incident up in the client's own     *)
(* list, which may not hold it (`listed`).                                 *)
(***************************************************************************)
Toast(op) ==
    /\ sent' = <<>>
    /\ lastOp' = Op(op, NULL, NULL, "toast_error", now)
    /\ UNCHANGED <<now, nextTick, incidents, clients, ws, userLoc, running>>

MayAccept(u) == role(u) \in AcceptRoles

acceptIncident(u, id) ==
    IF MayAccept(u) THEN PostAccept(id, u) ELSE Toast("acceptIncident")

MayResolve(u, id, listed) ==
    LET known == listed /\ Exists(incidents, id)
        isResponder == known /\ incidents[id].responder_id = u
        isReporter == known /\ incidents[id].reporter_id = u
    IN  isResponder \/ isReporter \/ role(u) = "admin"

resolveIncident(u, id, listed) ==
    IF MayResolve(u, id, listed)
    THEN PostResolve(id, u)
    ELSE Toast("resolveIncident")

(***************************************************************************)
(* wss.on('connection'): one closure per websocket, userId = null.  The    *)
(* websockets are numbered in the order they connect.                      *)
(***************************************************************************)
Quiet(op, s, u, res) ==
    /\ sent' = <<>>
    /\ lastOp' = [Op(op, NULL, u, res, now) EXCEPT !.sock = s]

WsConnect(s) ==
    /\ running
    /\ ws[s].readyState = "NONE"
    /\ \A r \in Sockets : r < s => ws[r].readyState /= "NONE"
    /\ ws' = [ws EXCEPT ![s] = [readyState |-> "OPEN", userId |-> NULL]]
    /\ Quiet("connect", s, NULL, "")
    /\ UNCHANGED <<now, nextTick, incidents, clients, userLoc, running>>

\* ws.on('message'), data.type === 'auth'.  `valid` is whether jwt.verify
\* accepts the token, u the id it decodes to.
\* (mutant) an existing entry is kept
Register_keepFirst(cl, u, s) == IF cl[u] /= NULL THEN cl ELSE [cl EXCEPT ![u] = s]

Register(cl, u, s) == [cl EXCEPT ![u] = s]

WsAuth(s, u, valid) ==
    /\ running
    /\ ws[s].readyState = "OPEN"
    /\ IF valid
       THEN /\ ws' = [ws EXCEPT ![s].userId = u]
            /\ clients' = Register(clients, u, s)
       ELSE UNCHANGED <<ws, clients>>
    /\ Quiet("auth", s, u, IF valid THEN "ok" ELSE "invalid")
    /\ UNCHANGED <<now, nextTick, incidents, userLoc, running>>

\* ws.on('message'), data.type === 'location_update' && userId: the closure's
\* userId decides, not the registry.  The user's row is updated and the
\* location sent to every admin/command user with an open registry entry,
\* except the reporting user.
WsLocation(s, lat, lng) ==
    LET u == ws[s].userId
    IN  /\ running
        /\ ws[s].readyState = "OPEN"
        /\ IF u /= NULL
           THEN /\ userLoc' = [userLoc EXCEPT ![u] = <<lat, lng>>]
                /\ sent' = SendEach(1, admins \ {u}, clients, ws,
                                    "user_location_update", NULL, "")
                /\ lastOp' = [Op("location", NULL, u, "ok", now) EXCEPT !.sock = s]
           ELSE /\ userLoc' = userLoc
                /\ Quiet("location", s, NULL, "ignored")
        /\ UNCHANGED <<now, nextTick, incidents, clients, ws, running>>

\* The transport stops being OPEN before its 'close' event is delivered.
WsClosing(s) ==
    /\ running
    /\ ws[s].readyState = "OPEN"
    /\ ws' = [ws EXCEPT ![s].readyState = "CLOSING"]
    /\ Quiet("closing", s, ws[s].userId, "")
    /\ UNCHANGED <<now, nextTick, incidents, clients, userLoc, running>>

\* ws.on('close'): if (userId) clients.delete(userId)
Unregister(cl, u) == IF u /= NULL THEN [cl EXCEPT ![u] = NULL] ELSE cl

WsClose(s) ==
    /\ running
    /\ ws[s].readyState = "CLOSING"
    /\ ws' = [ws EXCEPT ![s].readyState = "CLOSED"]
    /\ clients' = Unregister(clients, ws[s].userId)
    /\ Quiet("close", s, ws[s].userId, "")
    /\ UNCHANGED <<now, nextTick, incidents, userLoc, running>>

(***************************************************************************)
(* Inputs.                                                                 *)
(***************************************************************************)
Admin    == 1
Doctor   == 2
Police   == 3
Civilian == 4

IncidentIds == 1..(MaxIncidents + 1)    \* one id is always unknown
KnownIds    == DOMAIN incidents
Reporters   == {NULL, Civilian}

\* Request bodies of POST /api/incidents: complete ones, ones with a
\* coordinate null or missing, and ones with the reporter missing.
CreateRequests ==
    {[lat |-> 51, lng |-> 77, reporterId |-> r] : r \in Reporters}
    \cup {[lat |-> NULL, lng |-> 77, reporterId |-> Civilian],
          [lat |-> 51, lng |-> NULL, reporterId |-> Civilian],
          [lat |-> 51, lng |-> UNDEFINED, reporterId |-> Civilian],
          [lat |-> 51, lng |-> 77, reporterId |-> UNDEFINED]}

\* The model inserts at most `cap` rows.
Room(cap) == Len(incidents) < cap

\* The HTTP requests, from the client functions or sent directly.
Requests ==
    \/ \E q \in CreateRequests :
          Room(MaxIncidents) /\ PostIncident("SOS", q.lat, q.lng, q.reporterId, "critical")
    \/ \E id \in KnownIds, r \in Users : PostAccept(id, r)
    \/ \E id \in IncidentIds \ KnownIds : PostAccept(id, Doctor)
    \/ \E id \in KnownIds, u \in Users : PostResolve(id, u)
    \/ \E id \in IncidentIds \ KnownIds : PostResolve(id, Doctor)
    \/ \E u \in Users, id \in KnownIds : acceptIncident(u, id)
    \/ \E u \in Users, id \in KnownIds, listed \in BOOLEAN :
          resolveIncident(u, id, listed)

(***************************************************************************)
(* Spec: the incident lifecycle with the timer on time and the requests    *)
(* arriving before the first timer period or right after a callback; each  *)
(* websocket authenticates once and stays open.                            *)
(***************************************************************************)
Next ==
    \/ EscalationTick(0, 0, 0)
    \/ Requests
    \/ \E s \in Sockets : WsConnect(s)
    \/ \E s \in Sockets, u \in Users : ws[s].userId = NULL /\ WsAuth(s, u, TRUE)

Spec == Init /\ [][Next]_vars

(***************************************************************************)
(* SpecRegistry: every interleaving of connect, auth (valid or not, again  *)
(* or not), and close on the websockets, with one incident created and     *)
(* accepted so that messages are addressed to the registered users.        *)
(***************************************************************************)
NextRegistry ==
    \/ \E s \in Sockets : WsConnect(s)
    \/ \E s \in Sockets, u \in Users, valid \in BOOLEAN : WsAuth(s, u, valid)
    \/ \E s \in Sockets : WsClosing(s)
    \/ \E s \in Sockets : WsClose(s)
    \/ \E r \in {Civilian, Doctor} :
          Room(MaxIncidents) /\ PostIncident("SOS", 51, 77, r, "critical")
    \/ \E id \in KnownIds, r \in {Doctor, Police} : PostAccept(id, r)

SpecRegistry == Init /\ [][NextRegistry]_vars

(***************************************************************************)
(* SpecTimer: the clock in seconds.  The timer callback may start one      *)
(* period late (the event loop was busy, the process was suspended), and   *)
(* the clock may move between its UPDATE statements.                       *)
(***************************************************************************)
TimerRequests ==
    \/ Room(MaxIncidents) /\ PostIncident("SOS", 51, 77, Civilian, "critical")
    \/ \E id \in KnownIds : PostAccept(id, Doctor)
    \/ \E id \in KnownIds : PostResolve(id, Doctor)

NextTimer ==
    \/ ClockAdvance(1)
    \/ \E late \in {0, TickPeriod}, d3 \in 0..MaxStmtDelay, d4 \in 0..MaxStmtDelay :
          EscalationTick(late, d3, d4)
    \/ TimerRequests

SpecTimer == Init /\ [][NextTimer]_vars

(***************************************************************************)
(* SpecPunctual: as SpecTimer with the callback starting exactly when due, *)
(* every 30 s, and the timer keeps running.                                *)
(***************************************************************************)
PunctualTick == \E d3 \in 0..MaxStmtDelay, d4 \in 0..MaxStmtDelay : EscalationTick(0, d3, d4)

NextPunctual ==
    \/ ClockAdvance(1)
    \/ PunctualTick
    \/ TimerRequests

SpecPunctual ==
    /\ Init
    /\ [][NextPunctual]_vars
    /\ WF_vars(PunctualTick)

(***************************************************************************)
(* SpecBatch: up to MaxBatch incidents, created at the start or the middle *)
(* of the first timer period, so that one callback finds several rows in   *)
(* an escalated status.                                                    *)
(***************************************************************************)
NextBatch ==
    \/ ClockAdvance(TickPeriod \div 2)
    \/ EscalationTick(0, 0, 0)
    \/ Room(MaxBatch) /\ PostIncident("SOS", 51, 77, Civilian, "critical")
    \/ \E id \in KnownIds : PostAccept(id, Doctor)
    \/ \E s \in Sockets : WsConnect(s)
    \/ \E s \in Sockets, u \in Users : ws[s].userId = NULL /\ WsAuth(s, u, TRUE)

SpecBatch == Init /\ [][NextBatch]_vars

(***************************************************************************)
(* SpecLocation: location reports on websockets that connect, authenticate *)
(* (validly or not, once or again) and close.                              *)
(***************************************************************************)
Locations == {<<51, 77>>, <<52, 78>>}

NextLocation ==
    \/ \E s \in Sockets : WsConnect(s)
    \/ \E s \in Sockets, u \in Users, valid \in BOOLEAN : WsAuth(s, u, valid)
    \/ \E s \in Sockets, l \in Locations : WsLocation(s, l[1], l[2])
    \/ \E s \in Sockets : WsClosing(s)
    \/ \E s \in Sockets : WsClose(s)

SpecLocation == Init /\ [][NextLocation]_vars

(***************************************************************************)
(* SpecFault: as SpecPunctual without statement delays, and any run of the *)
(* callback may fail at any of its three UPDATEs.                          *)
(***************************************************************************)
FaultStages == 1..3

NextFault ==
    \/ ClockAdvance(1)
    \/ EscalationTick(0, 0, 0)
    \/ \E stage \in FaultStages : TickFault(stage)
    \/ TimerRequests

SpecFault == Init /\ [][NextFault]_vars

(***************************************************************************)
(* SpecDelivery: every kind of broadcast (to the responders, to everyone,  *)
(* to the reporter, to the admins) while websockets connect, authenticate  *)
(* once (validly or not) and stop being open.                              *)
(***************************************************************************)
NextDelivery ==
    \/ \E s \in Sockets : WsConnect(s)
    \/ \E s \in Sockets, u \in Users, valid \in BOOLEAN :
          ws[s].userId = NULL /\ WsAuth(s, u, valid)
    \/ \E s \in Sockets : WsClosing(s)
    \/ \E s \in Sockets : WsClose(s)
    \/ \E s \in Sockets : WsLocation(s, 51, 77)
    \/ Room(MaxIncidents) /\ PostIncident("SOS", 51, 77, Civilian, "critical")
    \/ \E id \in KnownIds : PostAccept(id, Doctor)
    \/ \E id \in KnownIds : PostResolve(id, Doctor)
    \/ EscalationTick(0, 0, 0)

SpecDelivery == Init /\ [][NextDelivery]_vars

(***************************************************************************)
(* SpecLate: the callback starts on time, one period late or two periods   *)
(* late, so that it may first see an incident at any age; the clock stands *)
(* still while it runs.                                                    *)
(***************************************************************************)
Lateness == {0, TickPeriod, 2 * TickPeriod}

NextLate ==
    \/ ClockAdvance(1)
    \/ \E late \in Lateness : EscalationTick(late, 0, 0)
    \/ TimerRequests

SpecLate == Init /\ [][NextLate]_vars

(***************************************************************************)
(* Properties.                                                             *)
(***************************************************************************)
Types(msgs) == {msgs[k].type : k \in DOMAIN msgs}

\* The messages of `msgs` of one of `types` about incident id.
About(msgs, types, id) ==
    {k \in DOMAIN msgs : msgs[k].type \in types /\ msgs[k].inc = id}

\* C1: an accept request on an incident that is already accepted is
\* rejected: its status and responder stay as they were and no
\* incident_accepted or incident_updated message is sent for it.
C1_SecondAcceptRejected ==
    [][\A id \in DOMAIN incidents :
          (incidents[id].status = "accepted"
             /\ lastOp'.op = "accept" /\ lastOp'.id = id)
          => /\ lastOp'.res /= "200"
             /\ incidents'[id].status = incidents[id].status
             /\ incidents'[id].responder_id = incidents[id].responder_id
             /\ About(sent', {"incident_accepted", "incident_updated"}, id) = {}]_vars

\* C2: an incident in status triggered has no responder, and a responder,
\* once set, is never changed by any later operation.
C2_ResponderSetOnce ==
    [][\A id \in DOMAIN incidents :
          /\ incidents[id].status = "triggered" => incidents[id].responder_id = NULL
          /\ incidents[id].responder_id /= NULL
             => incidents'[id].responder_id = incidents[id].responder_id]_vars

\* A request field that carries a value.
Present(v) == v \notin {NULL, UNDEFINED}

\* C5: a create request with latitude, longitude and reporter present
\* inserts exactly one incident, triggered and without responder, delivers
\* new_incident to every registered open session of a responder role, and
\* answers with the new id.
C5_CreateInsertsAndBroadcasts ==
    [][(lastOp'.op = "create" /\ Present(lastOp'.actor)
          /\ Present(lastOp'.body[1]) /\ Present(lastOp'.body[2]))
       => LET id == Len(incidents) + 1
          IN  /\ DOMAIN incidents' = 1..id
              /\ \A i \in DOMAIN incidents : incidents'[i] = incidents[i]
              /\ incidents'[id].status = "triggered"
              /\ incidents'[id].responder_id = NULL
              /\ \A u \in responders :
                    IsOpen(clients, ws, u)
                    => \E k \in DOMAIN sent' :
                          sent'[k] = Msg("new_incident", u, clients[u], id, "triggered")
              /\ lastOp'.res = "200"
              /\ lastOp'.id = id]_vars

\* C7: a resolve request from an actor who is neither the incident's
\* responder nor its reporter nor an admin is rejected: the status is
\* unchanged and no incident_updated or stats_update message is sent.
C7_UnauthorizedResolveRejected ==
    [][\A id \in DOMAIN incidents :
          (lastOp'.op = "resolve" /\ lastOp'.id = id
             /\ lastOp'.actor \in Users
             /\ lastOp'.actor /= incidents[id].responder_id
             /\ lastOp'.actor /= incidents[id].reporter_id
             /\ role(lastOp'.actor) /= "admin")
          => /\ lastOp'.res = "403"
             /\ incidents'[id].status = incidents[id].status
             /\ Types(sent') \cap {"incident_updated", "stats_update"} = {}]_vars

\* C8: an accept request from an actor whose role is not doctor, police or
\* volunteer is answered forbidden: status and responder are unchanged and
\* nothing is sent.
C8_WrongRoleAcceptForbidden ==
    [][\A id \in DOMAIN incidents :
          (lastOp'.op = "accept" /\ lastOp'.id = id
             /\ lastOp'.actor \in Users
             /\ role(lastOp'.actor) \notin AcceptRoles)
          => /\ lastOp'.res = "403"
             /\ incidents'[id].status = incidents[id].status
             /\ incidents'[id].responder_id = incidents[id].responder_id
             /\ sent' = <<>>]_vars

TierOrder == <<"triggered", "escalating", "hospital_notified", "command_alerted">>

\* The position of a status in the tier order, 0 for a status outside it.
TierRank(status) ==
    IF \E k \in DOMAIN TierOrder : TierOrder[k] = status
    THEN CHOOSE k \in DOMAIN TierOrder : TierOrder[k] = status
    ELSE 0

\* C3: a run of the timer callback leaves each incident's status unchanged
\* or moves it exactly one step along triggered -> escalating ->
\* hospital_notified -> command_alerted.
C3_TickOneStep ==
    [][lastOp'.op = "tick"
       => \A id \in DOMAIN incidents :
             \/ incidents'[id].status = incidents[id].status
             \/ /\ TierRank(incidents[id].status) > 0
                /\ TierRank(incidents'[id].status)
                      = TierRank(incidents[id].status) + 1]_vars

\* The ages at the first callback at which the age has reached `from`, with
\* the callback run every TickPeriod.
FirstTickAges(from) == from..(from + TickPeriod - 1)

Escalatable(row) == row.status \notin {"accepted", "resolved", "closed"}

C4_OnSchedule ==
    lastOp.op = "tick"
    => \A id \in DOMAIN incidents :
          LET row == incidents[id]
              age == Age(row, lastOp.at)
          IN  Escalatable(row)
              => /\ age \in FirstTickAges(Tier2Min) => row.status = "escalating"
                 /\ age \in FirstTickAges(Tier3Min) => row.status = "hospital_notified"
                 /\ age \in FirstTickAges(Tier4Over + 1) => row.status = "command_alerted"

\* C4: with the callback run every 30 s, an incident that is never accepted
\* or resolved is escalating after the first callback at which its age is at
\* least 60, hospital_notified after the first at which it is at least 120,
\* command_alerted after the first at which it exceeds 180; every such
\* incident reaches command_alerted.
C4_EscalatesOnSchedule ==
    /\ []C4_OnSchedule
    /\ \A id \in 1..MaxIncidents :
          (id \in DOMAIN incidents)
          ~> (id \in DOMAIN incidents
              /\ incidents[id].status \in {"command_alerted", "accepted", "resolved"})

C4_Witness ==
    /\ lastOp.op = "tick"
    /\ \E id \in DOMAIN incidents :
          /\ incidents[id].status = "command_alerted"
          /\ Age(incidents[id], lastOp.at) \in FirstTickAges(Tier4Over + 1)

\* C6: after a successful accept of an incident whose reporter has a
\* registered open session, exactly one incident_accepted message was sent,
\* to the reporter, through the reporter's registry entry; no
\* incident_accepted message is addressed to anyone else.
C6_ReporterNotifiedOnce ==
    (lastOp.op = "accept" /\ lastOp.res = "200")
    => LET reporter == incidents[lastOp.id].reporter_id
           notes == {k \in DOMAIN sent : sent[k].type = "incident_accepted"}
       IN  /\ \A k \in notes :
                /\ reporter /= NULL
                /\ sent[k] = Msg("incident_accepted", reporter, clients[reporter],
                                 lastOp.id, "")
           /\ (reporter /= NULL /\ IsOpen(clients, ws, reporter))
              => Cardinality(notes) = 1

C6_Witness ==
    /\ lastOp.op = "accept" /\ lastOp.res = "200"
    /\ IsOpen(clients, ws, incidents[lastOp.id].reporter_id)
    /\ \E u \in Users : u /= incidents[lastOp.id].reporter_id /\ IsOpen(clients, ws, u)
    /\ Cardinality({k \in DOMAIN sent : sent[k].type = "incident_accepted"}) = 1
    /\ Len(sent) > 1

\* C9: new_incident and incident_updated messages are addressed only to
\* users whose role is doctor, police, volunteer, command or admin, never
\* to a civilian.
C9_RoleScopedBroadcast ==
    \A k \in DOMAIN sent :
       sent[k].type \in {"new_incident", "incident_updated"}
       => role(sent[k].to) \in ResponderRoles

C9_Witness ==
    /\ IsOpen(clients, ws, Civilian)
    /\ \E k \in DOMAIN sent : sent[k].type = "incident_updated"
    /\ lastOp.op = "tick"

\* C10: a valid auth of user u on a websocket makes that websocket u's
\* registry entry, replacing any earlier one; the entry changes to another
\* websocket only by such an auth; and every message addressed to u is
\* written to u's current registry entry.
C10_LatestTransportWins ==
    [][/\ (lastOp'.op = "auth" /\ lastOp'.res = "ok")
          => clients'[lastOp'.actor] = lastOp'.sock
       /\ \A u \in Users :
             (clients'[u] /= clients[u] /\ clients'[u] /= NULL)
             => (lastOp'.op = "auth" /\ lastOp'.res = "ok"
                 /\ lastOp'.actor = u /\ lastOp'.sock = clients'[u])
       /\ \A k \in DOMAIN sent' : sent'[k].sock = clients'[sent'[k].to]]_vars

\* u authenticated on websocket 1, then on websocket 2, and a message
\* addressed to u went through websocket 2.
C10_Witness ==
    \E u \in Users :
       /\ ws[1].userId = u /\ ws[1].readyState = "OPEN"
       /\ ws[2].userId = u /\ clients[u] = 2
       /\ \E k \in DOMAIN sent : sent[k].to = u /\ sent[k].sock = 2

\* C11: the close of a websocket that is not (or no longer) a user's
\* registry entry leaves that user's entry in place: after u registers
\* websocket 1 and then websocket 2, the close of websocket 1 keeps u -> 2.
C11_SupersededCloseKeepsEntry ==
    [][lastOp'.op = "close"
       => \A u \in Users :
             (clients[u] /= NULL /\ clients[u] /= lastOp'.sock)
             => clients'[u] = clients[u]]_vars

ClaimedStatuses == {"accepted", "resolved", "closed"}

\* C12 (as stated): for every incident, the responder is set if and only if
\* the status is accepted, resolved or closed.
C12_ResponderIffClaimed ==
    \A id \in DOMAIN incidents :
       (incidents[id].responder_id /= NULL) <=> (incidents[id].status \in ClaimedStatuses)

\* C12 (amended): for every incident, a set responder implies that the
\* status is accepted, resolved or closed.  The converse does not hold: a
\* resolve is applied from any status, and an incident resolved without
\* having been accepted has no responder.
C12_ResponderOnlyWhenClaimed ==
    \A id \in DOMAIN incidents :
       (incidents[id].responder_id /= NULL) => (incidents[id].status \in ClaimedStatuses)

\* An accepted incident was resolved and keeps its responder.
C12_Witness ==
    /\ lastOp.op = "resolve"
    /\ \E id \in DOMAIN incidents :
          /\ lastOp.id = id
          /\ incidents[id].status = "resolved"
          /\ incidents[id].responder_id /= NULL

\* C13: once an incident's status is resolved, no accept request, resolve
\* request or timer callback changes its status.
C13_ResolvedTerminal ==
    [][\A id \in DOMAIN incidents :
          incidents[id].status = "resolved" => incidents'[id].status = "resolved"]_vars

\* C14: a run of the timer callback, however it interleaves with accept and
\* resolve requests, changes neither the status nor the responder of an
\* incident whose status is accepted or resolved.
C14_TickSparesClaimed ==
    [][lastOp'.op = "tick"
       => \A id \in DOMAIN incidents :
             incidents[id].status \in {"accepted", "resolved"}
             => /\ incidents'[id].status = incidents[id].status
                /\ incidents'[id].responder_id = incidents[id].responder_id]_vars

\* The callback ran over an accepted incident old enough for every tier.
C14_Witness ==
    /\ lastOp.op = "tick"
    /\ \E id \in DOMAIN incidents :
          /\ incidents[id].status = "accepted"
          /\ incidents[id].responder_id = Doctor
          /\ InTier4Window(Age(incidents[id], lastOp.at))

\* C15: an accept or resolve request naming an incident id that does not
\* exist is answered not found: no incident is changed and no
\* incident_accepted, incident_updated or stats_update message is sent.
C15_UnknownIdNotFound ==
    [][(lastOp'.op \in {"accept", "resolve"} /\ lastOp'.id \notin DOMAIN incidents)
       => /\ lastOp'.res = "404"
          /\ incidents' = incidents
          /\ Types(sent') \cap {"incident_accepted", "incident_updated",
                                "stats_update"} = {}]_vars

\* C16: a create request without latitude, without longitude or without
\* reporter inserts no incident and sends no new_incident or stats_update.
C16_IncompleteCreateFails ==
    [][(lastOp'.op = "create"
          /\ (~Present(lastOp'.body[1]) \/ ~Present(lastOp'.body[2])
                \/ ~Present(lastOp'.actor)))
       => /\ incidents' = incidents
          /\ Types(sent') \cap {"new_incident", "stats_update"} = {}]_vars

\* The stats_update messages of `msgs` addressed to u.
StatsTo(msgs, u) == {k \in DOMAIN msgs : msgs[k].type = "stats_update" /\ msgs[k].to = u}

\* C17: a timer callback that sends anything sends stats_update once for
\* the whole batch: each open session gets exactly one stats_update,
\* however many incidents are in an escalated status.
C17_StatsOncePerBatch ==
    (lastOp.op = "tick" /\ sent /= <<>>)
    => \A u \in Users :
          IsOpen(clients, ws, u) => Cardinality(StatsTo(sent, u)) = 1

\* C18: every incident_updated message that carries an incident, sent by
\* accept, resolve or the timer callback, carries the status the table
\* holds for that incident once the handler's writes are applied; for the
\* callback that is the status after all three UPDATEs.
C18_BroadcastsFollowWrites ==
    \A k \in DOMAIN sent :
       (sent[k].type = "incident_updated" /\ sent[k].inc /= NULL)
       => /\ sent[k].inc \in DOMAIN incidents
          /\ sent[k].status = incidents[sent[k].inc].status

\* The callback's third UPDATE changed a row and the message shows it.
C18_Witness ==
    /\ lastOp.op = "tick"
    /\ \E k \in DOMAIN sent :
          /\ sent[k].type = "incident_updated"
          /\ sent[k].status = "command_alerted"
          /\ Age(incidents[sent[k].inc], lastOp.at) \in FirstTickAges(Tier4Over + 1)

\* C19: after every create, accept or resolve that changed the table, and
\* after every timer callback that changed it, a stats_update was sent to
\* every user with an open registry entry, whatever the role.
C19_StatsAfterEveryMutation ==
    [][(lastOp'.op \in {"create", "accept", "resolve", "tick"}
          /\ incidents' /= incidents)
       => \A u \in Users :
             IsOpen(clients', ws', u) => StatsTo(sent', u) /= {}]_vars

\* C20: user_location_update messages are addressed only to users whose
\* role is admin or command, and written to that user's registry entry.
C20_LocationToAdminsOnly ==
    \A k \in DOMAIN sent :
       sent[k].type = "user_location_update"
       => /\ role(sent[k].to) \in AdminRoles
          /\ sent[k].sock = clients[sent[k].to]

\* A doctor reported a location; the admin got it while another
\* non-admin user had an open session too.
C20_Witness ==
    /\ lastOp.op = "location" /\ lastOp.actor = Doctor
    /\ \E k \in DOMAIN sent :
          sent[k].type = "user_location_update" /\ sent[k].to = Admin
    /\ \E u \in Users \ {Admin, Doctor} : IsOpen(clients, ws, u)
    /\ userLoc[Doctor] \in Locations

\* C21: an exception raised in one run of the timer callback is contained
\* in that run: the process and its timer keep running, so that the next
\* callback runs.
C21_TimerSurvivesFault ==
    [][lastOp'.op = "tickFault" => running']_vars

\* C22: every message of every broadcast is written to a websocket that is
\* open; a registered user whose websocket is not open is skipped without
\* an error (the accept, resolve or location handler completes, the
\* process keeps running); and no broadcast changes the registry.
C22_BestEffortDelivery ==
    [][lastOp'.op \in {"create", "accept", "resolve", "tick", "location"}
       => /\ clients' = clients
          /\ \A k \in DOMAIN sent' : ws[sent'[k].sock].readyState = "OPEN"
          /\ running'
          /\ (lastOp'.op \in {"accept", "resolve"} /\ lastOp'.id \in DOMAIN incidents)
             => lastOp'.res = "200"
          /\ (lastOp'.op = "location" /\ lastOp'.actor /= NULL)
             => lastOp'.res = "ok"]_vars

\* An accept went through while a registered user's websocket was no
\* longer open, and the others got their messages.
C22_Witness ==
    /\ lastOp.op = "accept" /\ lastOp.res = "200"
    /\ sent /= <<>>
    /\ \E u \in responders :
          clients[u] /= NULL /\ ws[clients[u]].readyState = "CLOSING"

\* C23: a location report for a user with no registry entry, in particular
\* one arriving on a websocket whose user's entry has been removed, changes
\* no stored location and sends no user_location_update.
C23_UnregisteredLocationNoOp ==
    [][(lastOp'.op = "location"
          /\ (lastOp'.actor = NULL \/ clients[lastOp'.actor] = NULL))
       => /\ userLoc' = userLoc
          /\ sent' = <<>>]_vars

\* C29: a websocket that has not authenticated successfully (its userId is
\* still null) is no user's registry entry, no message of any kind is
\* written to it, and a location_update received on it changes no stored
\* location and sends nothing.
C29_UnauthenticatedIsInert ==
    [][\A s \in Sockets :
          ws'[s].userId = NULL
          => /\ \A u \in Users : clients'[u] /= s
             /\ \A k \in DOMAIN sent' : sent'[k].sock /= s
             /\ (lastOp'.op = "location" /\ lastOp'.sock = s)
                => (userLoc' = userLoc /\ sent' = <<>>)]_vars

\* A location_update arrived on an open, unauthenticated websocket while an
\* admin was registered and open.
C29_Witness ==
    /\ lastOp.op = "location" /\ lastOp.res = "ignored"
    /\ ws[lastOp.sock].userId = NULL /\ ws[lastOp.sock].readyState = "OPEN"
    /\ IsOpen(clients, ws, Admin)
    /\ sent = <<>>

\* C30: no registry entry points to a closed websocket, and no websocket is
\* the registry entry of more than one user.
C30_NoEntryForClosedTransport ==
    \A s \in Sockets :
       /\ ws[s].readyState = "CLOSED" => \A u \in Users : clients[u] /= s
       /\ Cardinality({u \in Users : clients[u] = s}) <= 1

\* The status after a tick according to the windows [60,120), [120,180) and
\* (180, infinity), for an incident of the given status and age.
WindowStep(status, age) ==
    IF status = "triggered" /\ age >= 60 /\ age < 120 THEN "escalating"
    ELSE IF status = "escalating" /\ age >= 120 /\ age < 180 THEN "hospital_notified"
    ELSE IF status = "hospital_notified" /\ age > 180 THEN "command_alerted"
    ELSE status

C25_ThresholdsOnly ==
    [][lastOp'.op = "tick"
       => \A id \in DOMAIN incidents :
             LET row == incidents[id]
                 age == Age(row, lastOp'.at)
             IN  /\ (row.status = "triggered" /\ age >= 60)
                    => incidents'[id].status = "escalating"
                 /\ (row.status = "escalating" /\ age >= 120)
                    => incidents'[id].status = "hospital_notified"
                 /\ (row.status = "hospital_notified" /\ age >= 180)
                    => incidents'[id].status = "command_alerted"]_vars

\* C26: a timer callback that changes no incident sends nothing; one that
\* changes an incident sends incident_updated to every open responder for
\* every incident then escalating, hospital_notified or command_alerted,
\* changed by this callback or not, and for no other incident.
C26_TickBroadcastsEscalated ==
    [][lastOp'.op = "tick"
       => IF incidents' = incidents
          THEN sent' = <<>>
          ELSE /\ \A k \in DOMAIN sent' :
                     sent'[k].type = "incident_updated"
                     => sent'[k].inc \in DOMAIN incidents'
               /\ \A id \in DOMAIN incidents', u \in Users :
                     (\E k \in About(sent', {"incident_updated"}, id) : sent'[k].to = u)
                     <=> /\ incidents'[id].status \in
                               {"escalating", "hospital_notified", "command_alerted"}
                         /\ role(u) \in ResponderRoles
                         /\ IsOpen(clients, ws, u)]_vars

\* The callback moved one incident to escalating and sent incident_updated
\* for it and for another that was escalating since an earlier callback.
C26_Witness ==
    /\ lastOp.op = "tick"
    /\ \E i, j \in DOMAIN incidents :
          /\ incidents[i].status = "escalating"
          /\ Age(incidents[i], lastOp.at) >= Tier2Min + TickPeriod
          /\ incidents[j].status = "escalating"
          /\ Age(incidents[j], lastOp.at) < Tier2Min + TickPeriod
          /\ About(sent, {"incident_updated"}, i) /= {}
          /\ About(sent, {"incident_updated"}, j) /= {}

\* C27: an accept request on an incident whose status is hospital_notified,
\* command_alerted, resolved or closed changes neither its status nor its
\* responder.
C27_AcceptOnlyFromOpenTiers ==
    [][\A id \in DOMAIN incidents :
          (incidents[id].status \in {"hospital_notified", "command_alerted",
                                      "resolved", "closed"}
             /\ lastOp'.op = "accept" /\ lastOp'.id = id)
          => /\ incidents'[id].status = incidents[id].status
             /\ incidents'[id].responder_id = incidents[id].responder_id]_vars

\* The columns no operation may write after the insert.
ImmutablePart(row) == <<row.type, row.lat, row.lng, row.reporter_id, row.created_at>>

\* C28: no operation removes an incident or changes the type, location,
\* reporter or created_at of an existing incident (the id is the row's
\* position in the table).
C28_ImmutableColumns ==
    [][\A id \in DOMAIN incidents :
          /\ id \in DOMAIN incidents'
          /\ ImmutablePart(incidents'[id]) = ImmutablePart(incidents[id])]_vars

\* An incident went through the timer, an accept and a resolve.
C28_Witness ==
    /\ lastOp.op = "resolve"
    /\ lastOp.at >= Tier2Min
    /\ \E id \in DOMAIN incidents :
          /\ lastOp.id = id
          /\ incidents[id].status = "resolved"
          /\ incidents[id].responder_id /= NULL
          /\ incidents[id].reporter_id = Civilian

====
